---------------------------- MODULE Spec2Model ----------------------------
(***************************************************************************)
(* Tag synchronisation handlers of the repository:                         *)
(*   src/lamda/main.py          copy_role_tags_to_customer_managed_policy  *)
(*   src/lamda/main_test.py     handler                                    *)
(*   src/lib/lamda_function.py  lambda_handler                             *)
(* Every external (boto3) call is one step of the model; whether it        *)
(* succeeds or raises, and what it returns, is chosen by the environment.  *)
(* The helper functions of the two policy handlers have the same bodies    *)
(* (main.py:23-61, main_test.py:28-66), so they are modelled once, from    *)
(* main.py, and the handlers differ where their code differs: the early    *)
(* return on an empty listing (main.py:76-78) and the errors entry on a    *)
(* failed write (main_test.py:116-117).  The labels an object carries are  *)
(* chosen when the handler first reads them; Spec keeps those of the       *)
(* target being processed, SpecRerun keeps all of them for a second run.   *)
(***************************************************************************)
EXTENDS Integers, Sequences, FiniteSets, TLC

\* ------------------------------------------------------------- bounds
\* Objects returned by the top-level listing (policies, stacks).
MaxUnits == 2
\* Roles attached to one policy.
MaxSources == 2
\* Resources of one stack.
MaxTargets == 2

\* ------------------------------------------------------------ labels
Keys == {"env", "team"}
Vals == {"dev", "prod"}

\* A label set (a Python dict of tags): a function from some keys to values.
LabelSets == UNION {[D -> Vals] : D \in SUBSET Keys}

NoLabels == [k \in {} |-> "dev"]

IsEmpty(d) == DOMAIN d = {}

\* The three entry points.
CopyRoleTags == "copy_role_tags_to_customer_managed_policy"
Handler == "handler"
LambdaHandler == "lambda_handler"
PolicyVariants == {CopyRoleTags, Handler}

\* -------------------------------------------------- pure functions

\* dict.update(e) applied to d: e's entries replace or extend d's.
update(d, e) ==
    [k \in DOMAIN d \cup DOMAIN e |-> IF k \in DOMAIN e THEN e[k] ELSE d[k]]

\* find_missing_tags: the loop over stack_tags.items(), one key at a time,
\* in an arbitrary (dict) order; the accumulated dict is returned.
RECURSIVE find_missing_loop(_, _, _, _)
find_missing_loop(resource_tags, stack_tags, todo, missing_tags) ==
    IF todo = {} THEN missing_tags
    ELSE LET key == CHOOSE k \in todo : TRUE
             next == IF key \notin DOMAIN resource_tags
                     THEN update(missing_tags, [k \in {key} |-> stack_tags[key]])
                     ELSE missing_tags
         IN find_missing_loop(resource_tags, stack_tags, todo \ {key}, next)

find_missing_tags(resource_tags, stack_tags) ==
    find_missing_loop(resource_tags, stack_tags, DOMAIN stack_tags, NoLabels)

\* {key: value for key, value in all_role_tags.items() if key not in policy_tags}
\* (tags_to_apply_taking_differing: the same with a comparison of values.)
tags_to_apply_taking_differing(role_tags, target_tags) ==
    [k \in {x \in DOMAIN role_tags :
              x \notin DOMAIN target_tags \/ target_tags[x] # role_tags[x]}
       |-> role_tags[k]]

tags_to_apply_of(role_tags, target_tags) ==
    [k \in {x \in DOMAIN role_tags : x \notin DOMAIN target_tags} |-> role_tags[k]]

\* The role loop's body: `if role_tags: all_role_tags.update(role_tags)`.
\* (merge_earlier_wins: the update taken the other way round.)
merge_earlier_wins(merged, role_tags) ==
    update(role_tags, merged)

merge_role_tags(merged, role_tags) ==
    IF ~IsEmpty(role_tags) THEN update(merged, role_tags) ELSE merged

\* [{'Key': key, 'Value': value} for key, value in tags_to_apply.items()]
\* (tag_list_first_key: a request that carries one key of the delta only.)
tag_list_first_key(tags) ==
    IF IsEmpty(tags) THEN {}
    ELSE LET k == CHOOSE x \in DOMAIN tags : TRUE
         IN {[Key |-> k, Value |-> tags[k]]}

tag_list(tags) == {[Key |-> k, Value |-> tags[k]] : k \in DOMAIN tags}

\* list(missing_tags.items()): the (key, value) pairs.
items(tags) == {<<k, tags[k]>> : k \in DOMAIN tags}

\* What the tagging services do with a successful write: every tag of the
\* request is set on the object, replacing the value of a key it carries.
\* (Whether the service accepts lambda_handler's list of pairs at all is the
\* environment's choice of success or failure in TagResources.)
tag_policy(labels, Tags) ==
    [k \in DOMAIN labels \cup {t.Key : t \in Tags} |->
        IF \E t \in Tags : t.Key = k
        THEN (CHOOSE t \in Tags : t.Key = k).Value
        ELSE labels[k]]

tag_resources(labels, Tags) ==
    [k \in DOMAIN labels \cup {t[1] : t \in Tags} |->
        IF \E t \in Tags : t[1] = k
        THEN (CHOOSE t \in Tags : t[1] = k)[2]
        ELSE labels[k]]

\* apply_tags_to_policy: what it returns and whether it called tag_policy,
\* given whether the call (if made) succeeds.
\* (apply_tags_to_policy_always_calls: without the test of main.py:52-54;
\* apply_tags_to_policy_empty_fails: with False returned at main.py:54.)
apply_tags_to_policy_always_calls(tags, ok) ==
    [ret |-> ok, called |-> TRUE]

apply_tags_to_policy_empty_fails(tags, ok) ==
    IF IsEmpty(tags) THEN [ret |-> FALSE, called |-> FALSE]
    ELSE [ret |-> ok, called |-> TRUE]

apply_tags_to_policy(tags, ok) ==
    IF IsEmpty(tags) THEN [ret |-> TRUE, called |-> FALSE]
    ELSE [ret |-> ok, called |-> TRUE]

\* apply_tags_to_resource, whose argument is the list of pairs.
apply_tags_to_resource(pairs, ok) ==
    IF pairs # {} THEN [ret |-> ok, called |-> TRUE]
    ELSE [ret |-> TRUE, called |-> FALSE]

\* ------------------------------------------------------------- state

VARIABLES
    \* The account and the invocation (fixed during a behaviour).
    variant,          \* which entry point runs
    catalogN,         \* how many objects the top-level listing has to return
    aws_region,       \* whether AWS_REGION is set (lambda_handler)
    memo_on,          \* whether the account's labels are kept for a later run
    memo,             \* the labels kept: of the unit's sources and targets
    \* The handler.
    pc,
    units,            \* customer_managed_policies / target_policies / all_stack_names
    i,                \* how many of them the for loop has taken
    attached_roles,   \* attached_roles; in lambda_handler resources_in_stack
    j,                \* how many of them the inner loop has taken
    all_role_tags,    \* all_role_tags; in lambda_handler stack_tags
    policy_tags,      \* policy_tags; in lambda_handler resource_tags
    tags_to_apply,    \* tags_to_apply; in lambda_handler missing_tags
    results,          \* the summary (and lambda_handler's statusCode)
    \* What an observer of the external calls has seen.
    obs,              \* about the target being processed: the role label sets
                      \* fetched (until the merged set is used), the merged
                      \* set, the write requests, the target's labels
    run_obs,          \* totals of this run
    run,              \* 1, or 2 in a second invocation
    prev_all_ok,      \* whether every external call of the first run succeeded
    raised_by         \* the function whose exception left the handler

vars == <<variant, catalogN, aws_region, memo_on, memo, pc, units, i,
          attached_roles, j, all_role_tags, policy_tags, tags_to_apply,
          results, obs, run_obs, run, prev_all_ok, raised_by>>

account == <<variant, catalogN, aws_region, memo_on>>

Ids(n) == [x \in 1..n |-> x]

NoMemo == [n |-> -1, src |-> <<>>, tgt |-> <<>>]

\* results as both policy handlers build it (main.py:69-73), with the
\* statusCode lambda_handler returns instead (0: nothing returned yet).
NewResults ==
    [policies_processed |-> 0, policies_tagged |-> 0, errors |-> <<>>,
     statusCode |-> 0]

FreshObs(tagged) ==
    [fetched |-> <<>>, merged |-> NoLabels, calls |-> <<>>,
     tgt0 |-> NoLabels, tgt |-> NoLabels,
     tgt_known |-> FALSE, target_fetched |-> FALSE, delta_known |-> FALSE,
     apply_result |-> "none", tagged_before |-> tagged]

NewRunObs ==
    [n_writes |-> 0, n_deltas |-> 0, n_failed |-> 0, n_ok |-> 0, all_ok |-> TRUE]

\* The labels an object of the account carries: any, unless kept from before.
SourceLabels(k) ==
    IF memo_on /\ k <= Len(memo.src) THEN {memo.src[k]} ELSE LabelSets

TargetLabels(k) ==
    IF memo_on /\ k <= Len(memo.tgt) THEN {memo.tgt[k]} ELSE LabelSets

AssocCounts(max) ==
    IF memo_on /\ memo.n >= 0 THEN {memo.n} ELSE 0..max

KeepSource(m, k, labels) ==
    IF memo_on /\ k = Len(m.src) + 1 THEN [m EXCEPT !.src = Append(@, labels)] ELSE m

KeepTarget(m, k, labels) ==
    IF ~memo_on THEN m
    ELSE IF k = Len(m.tgt) + 1 THEN [m EXCEPT !.tgt = Append(@, labels)]
    ELSE [m EXCEPT !.tgt[k] = labels]

KeepCount(m, n) ==
    IF memo_on THEN [m EXCEPT !.n = n] ELSE m

Bool(b) == IF b THEN "true" ELSE "false"

\* Where the outer for loop goes after unit idx of us: the next one, or the
\* code after the loop, which returns.
Cont(idx, us) == IF idx < Len(us) THEN "unit" ELSE "done"

\* lambda_handler's return after its loop (lamda_function.py:129-134).
Returned(res, nextpc) ==
    IF variant = LambdaHandler /\ nextpc = "done"
    THEN [res EXCEPT !.statusCode = 200] ELSE res

Init ==
    /\ variant \in {CopyRoleTags, Handler, LambdaHandler}
    /\ catalogN \in 0..MaxUnits
    /\ aws_region \in (IF variant = LambdaHandler THEN BOOLEAN ELSE {TRUE})
    /\ memo_on = FALSE
    /\ memo = NoMemo
    /\ pc = "start"
    /\ units = <<>>
    /\ i = 0
    /\ attached_roles = <<>>
    /\ j = 0
    /\ all_role_tags = NoLabels
    /\ policy_tags = NoLabels
    /\ tags_to_apply = NoLabels
    /\ results = NewResults
    /\ obs = FreshObs(0)
    /\ run_obs = NewRunObs
    /\ run = 1
    /\ prev_all_ok = FALSE
    /\ raised_by = "none"

\* ------------------------------------------------ the policy handlers

\* get_customer_managed_policies / get_policies_by_description: the listing,
\* whose failure on any page gives []; then the early return of main.py:76-78
\* or, with no policy, the end of the loop.
ListPolicies ==
    /\ pc = "start"
    /\ variant \in PolicyVariants
    /\ \E ok \in BOOLEAN :
         LET listed == IF ok THEN Ids(catalogN) ELSE <<>>
         IN /\ units' = listed
            /\ pc' = IF Len(listed) = 0 THEN "done" ELSE "unit"
            /\ run_obs' = [run_obs EXCEPT !.all_ok = @ /\ ok]
    /\ UNCHANGED <<account, memo, i, attached_roles, j, all_role_tags,
                   policy_tags, tags_to_apply, results, obs, run, prev_all_ok,
                   raised_by>>

\* The head of the for loop and get_attached_roles_for_policy
\* (main.py:80-89): a failed or empty listing of roles continues with the
\* next policy.
GetAttachedRoles ==
    /\ pc = "unit"
    /\ variant \in PolicyVariants
    /\ \E ok \in BOOLEAN, n \in AssocCounts(MaxSources) :
         LET roles == IF ok THEN Ids(n) ELSE <<>>
         IN /\ attached_roles' = roles
            /\ pc' = IF Len(roles) = 0 THEN Cont(i + 1, units) ELSE "role"
            /\ memo' = KeepCount(memo, n)
            /\ run_obs' = [run_obs EXCEPT !.all_ok = @ /\ ok]
    /\ i' = i + 1
    /\ results' = [results EXCEPT !.policies_processed = @ + 1]
    /\ j' = 0
    /\ all_role_tags' = NoLabels
    /\ policy_tags' = NoLabels
    /\ tags_to_apply' = NoLabels
    /\ obs' = FreshObs(results.policies_tagged)
    /\ UNCHANGED <<account, units, run, prev_all_ok, raised_by>>

\* One turn of the role loop with get_role_tags (main.py:92-99), and, after
\* the last role, the test `if all_role_tags` (main.py:101, 107-108).
GetRoleTags ==
    /\ pc = "role"
    /\ \E ok \in BOOLEAN, labels \in SourceLabels(j + 1) :
         LET role_tags == IF ok THEN labels ELSE NoLabels
             merged == merge_role_tags(all_role_tags, role_tags)
         IN /\ all_role_tags' = merged
            /\ obs' = [obs EXCEPT !.fetched = Append(@, role_tags)]
            /\ memo' = KeepSource(memo, j + 1, labels)
            /\ run_obs' = [run_obs EXCEPT !.all_ok = @ /\ ok]
            /\ pc' = IF j + 1 < Len(attached_roles) THEN "role"
                     ELSE IF ~IsEmpty(merged) THEN "policy_tags"
                     ELSE Cont(i, units)
    /\ j' = j + 1
    /\ UNCHANGED <<account, units, i, attached_roles, policy_tags,
                   tags_to_apply, results, run, prev_all_ok, raised_by>>

\* get_policy_tags, the comprehension of main.py:103, and
\* apply_tags_to_policy up to its call of tag_policy (main.py:50-54).
GetPolicyTags ==
    /\ pc = "policy_tags"
    /\ \E ok \in BOOLEAN, labels \in TargetLabels(1) :
         LET fetched == IF ok THEN labels ELSE NoLabels
             delta == tags_to_apply_of(all_role_tags, fetched)
             r == apply_tags_to_policy(delta, TRUE)
         IN /\ policy_tags' = fetched
            /\ tags_to_apply' = delta
            /\ memo' = KeepTarget(memo, 1, labels)
            /\ obs' = [obs EXCEPT !.fetched = <<>>, !.merged = all_role_tags,
                                  !.tgt0 = labels, !.tgt = labels,
                                  !.tgt_known = TRUE, !.target_fetched = TRUE,
                                  !.delta_known = TRUE,
                                  !.apply_result =
                                      IF r.called THEN "none" ELSE Bool(r.ret)]
            /\ pc' = IF r.called THEN "tag_policy" ELSE Cont(i, units)
            /\ results' = IF ~r.called /\ r.ret
                          THEN [results EXCEPT !.policies_tagged = @ + 1]
                          ELSE results
            /\ run_obs' = [run_obs EXCEPT
                             !.all_ok = @ /\ ok,
                             !.n_deltas = IF IsEmpty(delta) THEN @ ELSE @ + 1,
                             !.n_ok = IF ~IsEmpty(all_role_tags) /\ ~r.called /\ r.ret
                                      THEN @ + 1 ELSE @]
    /\ UNCHANGED <<account, units, i, attached_roles, j, all_role_tags, run,
                   prev_all_ok, raised_by>>

\* The tag_policy call of apply_tags_to_policy (main.py:55-61) and what the
\* handler does with its result (main.py:105-106, main_test.py:114-117).
TagPolicy ==
    /\ pc = "tag_policy"
    /\ \E ok \in BOOLEAN :
         LET r == apply_tags_to_policy(tags_to_apply, ok)
             Tags == tag_list(tags_to_apply)
             now == IF ok THEN tag_policy(obs.tgt, Tags) ELSE obs.tgt
         IN /\ obs' = [obs EXCEPT !.calls = Append(@, Tags), !.tgt = now,
                                  !.apply_result = Bool(r.ret)]
            /\ memo' = KeepTarget(memo, 1, now)
            /\ results' =
                 IF r.ret THEN [results EXCEPT !.policies_tagged = @ + 1]
                 ELSE IF variant = Handler
                      THEN [results EXCEPT !.errors = Append(@, i)]
                      ELSE results
            /\ run_obs' = [run_obs EXCEPT
                             !.all_ok = @ /\ ok,
                             !.n_writes = @ + 1,
                             !.n_failed = IF ok THEN @ ELSE @ + 1,
                             !.n_ok = IF r.ret /\ ~IsEmpty(all_role_tags)
                                      THEN @ + 1 ELSE @]
    /\ pc' = Cont(i, units)
    /\ UNCHANGED <<account, units, i, attached_roles, j, all_role_tags,
                   policy_tags, tags_to_apply, run, prev_all_ok, raised_by>>

\* ---------------------------------------------------- lambda_handler

\* Where the resource loop goes after resource idx: the next resource, or
\* the next stack.
ContResources(idx) ==
    IF idx < Len(attached_roles) THEN "resource" ELSE Cont(i, units)

\* The AWS_REGION test (lamda_function.py:83-90) and get_all_stack_names,
\* which catches nothing: a failing page of list_stacks leaves the handler.
ListStacks ==
    /\ pc = "start"
    /\ variant = LambdaHandler
    /\ \E ok \in (IF aws_region THEN BOOLEAN ELSE {TRUE}) :
         IF ~aws_region
         THEN /\ pc' = "done"
              /\ results' = [results EXCEPT !.statusCode = 400]
              /\ UNCHANGED <<units, raised_by, run_obs>>
         ELSE IF ok
         THEN /\ units' = Ids(catalogN)
              /\ pc' = Cont(0, Ids(catalogN))
              /\ results' = Returned(results, Cont(0, Ids(catalogN)))
              /\ UNCHANGED <<raised_by, run_obs>>
         ELSE /\ pc' = "raised"
              /\ raised_by' = "get_all_stack_names"
              /\ run_obs' = [run_obs EXCEPT !.all_ok = FALSE]
              /\ UNCHANGED <<units, results>>
    /\ UNCHANGED <<account, memo, i, attached_roles, j, all_role_tags,
                   policy_tags, tags_to_apply, obs, run, prev_all_ok>>

\* The head of the stack loop and get_stack_tags, which turns a failure into
\* {}; a stack with no tags is skipped (lamda_function.py:103-110).
GetStackTags ==
    /\ pc = "unit"
    /\ variant = LambdaHandler
    /\ \E ok \in BOOLEAN, labels \in SourceLabels(1) :
         LET stack_tags == IF ok THEN labels ELSE NoLabels
             nextpc == IF IsEmpty(stack_tags) THEN Cont(i + 1, units)
                       ELSE "resources"
         IN /\ all_role_tags' = stack_tags
            /\ memo' = KeepSource(memo, 1, labels)
            /\ pc' = nextpc
            /\ results' = Returned(results, nextpc)
            /\ run_obs' = [run_obs EXCEPT !.all_ok = @ /\ ok]
    /\ i' = i + 1
    /\ attached_roles' = <<>>
    /\ j' = 0
    /\ policy_tags' = NoLabels
    /\ tags_to_apply' = NoLabels
    /\ obs' = FreshObs(0)
    /\ UNCHANGED <<account, units, run, prev_all_ok, raised_by>>

\* get_resources_in_stack, first call and following pages, none of them
\* caught (lamda_function.py:27-52, 112).
GetResources ==
    /\ pc = "resources"
    /\ \E ok \in BOOLEAN, n \in AssocCounts(MaxTargets) :
         /\ memo' = KeepCount(memo, n)
         /\ IF ok
            THEN /\ attached_roles' = Ids(n)
                 /\ pc' = IF n = 0 THEN Cont(i, units) ELSE "resource"
                 /\ results' = Returned(results,
                                        IF n = 0 THEN Cont(i, units) ELSE "resource")
                 /\ UNCHANGED <<raised_by, run_obs>>
            ELSE /\ pc' = "raised"
                 /\ raised_by' = "get_resources_in_stack"
                 /\ run_obs' = [run_obs EXCEPT !.all_ok = FALSE]
                 /\ UNCHANGED <<attached_roles, results>>
    /\ UNCHANGED <<account, units, i, j, all_role_tags, policy_tags,
                   tags_to_apply, obs, run, prev_all_ok>>

\* One turn of the resource loop up to the call of apply_tags_to_resource
\* (lamda_function.py:115-121, 126-127): the resource's tags come with the
\* listing.
ScanResource ==
    /\ pc = "resource"
    /\ \E labels \in TargetLabels(j + 1) :
         LET missing_tags == find_missing_tags(labels, all_role_tags)
             nextpc == IF ~IsEmpty(missing_tags) THEN "tag_resources"
                       ELSE ContResources(j + 1)
         IN /\ policy_tags' = labels
            /\ tags_to_apply' = missing_tags
            /\ memo' = KeepTarget(memo, j + 1, labels)
            /\ obs' = [FreshObs(0) EXCEPT !.tgt0 = labels, !.tgt = labels,
                                          !.tgt_known = TRUE,
                                          !.delta_known = TRUE]
            /\ pc' = nextpc
            /\ results' = Returned(results, nextpc)
            /\ run_obs' = [run_obs EXCEPT
                             !.n_deltas = IF IsEmpty(missing_tags) THEN @ ELSE @ + 1]
    /\ j' = j + 1
    /\ UNCHANGED <<account, units, i, attached_roles, all_role_tags, run,
                   prev_all_ok, raised_by>>

\* apply_tags_to_resource with list(missing_tags.items())
\* (lamda_function.py:62-74, 122-125).
TagResources ==
    /\ pc = "tag_resources"
    /\ \E ok \in BOOLEAN :
         LET Tags == items(tags_to_apply)
             r == apply_tags_to_resource(Tags, ok)
             now == IF r.called /\ ok THEN tag_resources(obs.tgt, Tags) ELSE obs.tgt
         IN /\ obs' = [obs EXCEPT
                         !.calls = IF r.called THEN Append(@, Tags) ELSE @,
                         !.tgt = now, !.apply_result = Bool(r.ret)]
            /\ memo' = KeepTarget(memo, j, now)
            /\ run_obs' = [run_obs EXCEPT
                             !.all_ok = @ /\ (ok \/ ~r.called),
                             !.n_writes = IF r.called THEN @ + 1 ELSE @,
                             !.n_failed = IF r.called /\ ~ok THEN @ + 1 ELSE @]
    /\ pc' = ContResources(j)
    /\ results' = Returned(results, ContResources(j))
    /\ UNCHANGED <<account, units, i, attached_roles, j, all_role_tags,
                   policy_tags, tags_to_apply, run, prev_all_ok, raised_by>>

\* ------------------------------------------------------ specifications

Next ==
    \/ ListPolicies
    \/ GetAttachedRoles
    \/ GetRoleTags
    \/ GetPolicyTags
    \/ TagPolicy
    \/ ListStacks
    \/ GetStackTags
    \/ GetResources
    \/ ScanResource
    \/ TagResources

Spec == Init /\ [][Next]_vars

\* A second invocation on the account the first one left: the handler
\* starts afresh (nothing is kept between invocations) and the account's
\* labels, kept in memo, are what the first run left.
Rerun ==
    /\ pc = "done"
    /\ run = 1
    /\ memo_on
    /\ pc' = "start"
    /\ run' = 2
    /\ prev_all_ok' = run_obs.all_ok
    /\ units' = <<>>
    /\ i' = 0
    /\ attached_roles' = <<>>
    /\ j' = 0
    /\ all_role_tags' = NoLabels
    /\ policy_tags' = NoLabels
    /\ tags_to_apply' = NoLabels
    /\ results' = NewResults
    /\ obs' = FreshObs(0)
    /\ run_obs' = NewRunObs
    /\ UNCHANGED <<account, memo, raised_by>>

\* An account with one top-level object, whose labels are kept.
InitRerun ==
    /\ variant \in {CopyRoleTags, Handler, LambdaHandler}
    /\ catalogN = 1
    /\ aws_region = TRUE
    /\ memo_on = TRUE
    /\ memo = NoMemo
    /\ pc = "start"
    /\ units = <<>>
    /\ i = 0
    /\ attached_roles = <<>>
    /\ j = 0
    /\ all_role_tags = NoLabels
    /\ policy_tags = NoLabels
    /\ tags_to_apply = NoLabels
    /\ results = NewResults
    /\ obs = FreshObs(0)
    /\ run_obs = NewRunObs
    /\ run = 1
    /\ prev_all_ok = FALSE
    /\ raised_by = "none"

NextRerun == Next \/ Rerun

SpecRerun == InitRerun /\ [][NextRerun]_vars

\* The delta functions on their own: any source and target label sets, the
\* delta of each function, and the delta again after the first was written.
InitPure ==
    /\ variant = "none"
    /\ catalogN = 0
    /\ aws_region = TRUE
    /\ memo_on = FALSE
    /\ memo = NoMemo
    /\ pc = "pure"
    /\ units = <<>>
    /\ i = 0
    /\ attached_roles = <<>>
    /\ j = 0
    /\ all_role_tags \in LabelSets
    /\ policy_tags \in LabelSets
    /\ tags_to_apply = NoLabels
    /\ results = NewResults
    /\ obs = FreshObs(0)
    /\ run_obs = NewRunObs
    /\ run = 1
    /\ prev_all_ok = FALSE
    /\ raised_by = "none"

PureFindMissing ==
    /\ pc = "pure"
    /\ tags_to_apply' = find_missing_tags(policy_tags, all_role_tags)
    /\ pc' = "pure_find"
    /\ UNCHANGED <<account, memo, units, i, attached_roles, j, all_role_tags,
                   policy_tags, results, obs, run_obs, run, prev_all_ok,
                   raised_by>>

PureTagsToApply ==
    /\ pc = "pure"
    /\ tags_to_apply' = tags_to_apply_of(all_role_tags, policy_tags)
    /\ pc' = "pure_comprehension"
    /\ UNCHANGED <<account, memo, units, i, attached_roles, j, all_role_tags,
                   policy_tags, results, obs, run_obs, run, prev_all_ok,
                   raised_by>>

\* The delta is written to the target and computed again.
PureAgain ==
    /\ pc \in {"pure_find", "pure_comprehension"}
    /\ LET written == IF pc = "pure_find"
                      THEN tag_resources(policy_tags, items(tags_to_apply))
                      ELSE tag_policy(policy_tags, tag_list(tags_to_apply))
       IN /\ policy_tags' = written
          /\ obs' = [obs EXCEPT !.tgt0 = policy_tags, !.tgt = written,
                                !.tgt_known = TRUE]
          /\ tags_to_apply' = IF pc = "pure_find"
                              THEN find_missing_tags(written, all_role_tags)
                              ELSE tags_to_apply_of(all_role_tags, written)
    /\ pc' = "pure_again"
    /\ UNCHANGED <<account, memo, units, i, attached_roles, j, all_role_tags,
                   results, run_obs, run, prev_all_ok, raised_by>>

NextPure == PureFindMissing \/ PureTagsToApply \/ PureAgain

SpecPure == InitPure /\ [][NextPure]_vars

\* -------------------------------------------------------------- claims

\* The keys a write request carries.
PayloadKeys(Tags) ==
    IF variant = LambdaHandler THEN {t[1] : t \in Tags} ELSE {t.Key : t \in Tags}

\* The request a handler builds from a delta.
Payload(delta) ==
    IF variant = LambdaHandler THEN items(delta) ELSE tag_list(delta)

\* The handler is through with the current policy.
PolicyDone == variant \in PolicyVariants /\ i >= 1 /\ pc \in {"unit", "done"}

\* A write call is about to be made for the current target.
WritePending == pc \in {"tag_policy", "tag_resources"}

\* The last of the role label sets fetched so far that has key k (0: none).
LastWith(k) ==
    LET has == {n \in 1..Len(obs.fetched) : k \in DOMAIN obs.fetched[n]}
    IN IF has = {} THEN 0 ELSE CHOOSE n \in has : \A m \in has : m <= n

\* C1: whatever external calls fail, every label the target had before the
\* run keeps its value (so no write that took effect carried a key the
\* target already had).
NoOverwrite ==
    \A k \in DOMAIN obs.tgt0 :
        k \in DOMAIN obs.tgt /\ obs.tgt[k] = obs.tgt0[k]

\* C2: the delta each function computes from source labels A and target
\* labels B has exactly the keys of A that B lacks, with A's values; the
\* delta of A against itself and of {} against B is {}, of A against {} is A.
DeltaExact ==
    pc \in {"pure_find", "pure_comprehension"} =>
        /\ DOMAIN tags_to_apply = DOMAIN all_role_tags \ DOMAIN policy_tags
        /\ \A k \in DOMAIN tags_to_apply : tags_to_apply[k] = all_role_tags[k]
        /\ all_role_tags = policy_tags => tags_to_apply = NoLabels
        /\ all_role_tags = NoLabels => tags_to_apply = NoLabels
        /\ policy_tags = NoLabels => tags_to_apply = all_role_tags

DeltaExactWitness ==
    /\ pc = "pure_comprehension"
    /\ all_role_tags = [k \in {"env", "team"} |-> IF k = "env" THEN "dev" ELSE "prod"]
    /\ policy_tags = [k \in {"env"} |-> "prod"]
    /\ tags_to_apply = [k \in {"team"} |-> "prod"]

\* C3: no exception of an external call leaves a handler.
NoErrorEscapes ==
    pc # "raised" /\ raised_by = "none"

\* C4: in a handler that returns a summary, each failed write adds exactly
\* one entry to errors, the write is not repeated, the target is not counted
\* as tagged, and the run goes on.
FailedWriteRecorded ==
    variant \in PolicyVariants =>
        /\ Len(results.errors) = run_obs.n_failed
        /\ (PolicyDone /\ obs.apply_result = "false") =>
              /\ Len(obs.calls) = 1
              /\ results.policies_tagged = obs.tagged_before
              /\ results.errors[Len(results.errors)] = i

\* C5: with an empty delta no write call is made for the target, and the
\* apply step reports success.
EmptyDeltaNoWrite ==
    /\ (obs.delta_known /\ IsEmpty(tags_to_apply)) =>
          /\ obs.calls = <<>>
          /\ ~WritePending
          /\ variant \in PolicyVariants => obs.apply_result = "true"
    /\ \A ok \in BOOLEAN :
          apply_tags_to_resource(items(NoLabels), ok) = [ret |-> TRUE, called |-> FALSE]

EmptyDeltaNoWriteWitness ==
    /\ PolicyDone
    /\ obs.delta_known
    /\ all_role_tags = [k \in {"team"} |-> "prod"]
    /\ obs.tgt0 = [k \in {"team"} |-> "dev"]
    /\ policy_tags = obs.tgt0
    /\ IsEmpty(tags_to_apply)
    /\ obs.apply_result = "true"
    /\ obs.calls = <<>>

\* C6: with a non-empty delta the write API is called exactly once for the
\* target, with the whole delta (each of its keys with the source's value
\* and no other key), whether the call succeeds or fails.
SingleBatchedWrite ==
    /\ Len(obs.calls) <= 1
    /\ run_obs.n_writes = run_obs.n_deltas - (IF WritePending THEN 1 ELSE 0)
    /\ obs.calls # <<>> => obs.delta_known /\ ~IsEmpty(tags_to_apply)
    /\ (obs.delta_known /\ ~IsEmpty(tags_to_apply) /\ ~WritePending) =>
          /\ Len(obs.calls) = 1
          /\ obs.calls[1] = Payload(tags_to_apply)
          /\ PayloadKeys(obs.calls[1]) = DOMAIN tags_to_apply
          /\ Cardinality(obs.calls[1]) = Cardinality(DOMAIN tags_to_apply)
          /\ \A k \in DOMAIN tags_to_apply :
                /\ k \in DOMAIN all_role_tags
                /\ Payload([x \in {k} |-> all_role_tags[k]]) \subseteq obs.calls[1]

SingleBatchedWriteWitness ==
    /\ PolicyDone
    /\ obs.apply_result = "false"
    /\ Cardinality(DOMAIN tags_to_apply) = 2
    /\ Len(obs.calls) = 1
    /\ Cardinality(obs.calls[1]) = 2

\* C7: the roles' label sets are merged in listing order, a later role
\* replacing an earlier one's value: each key of the merged set has the
\* value of the last role whose fetched label set has the key, and the
\* delta is taken from that merged set.
LastWriterWins ==
    variant \in PolicyVariants =>
        /\ ~obs.delta_known =>
             /\ DOMAIN all_role_tags =
                  UNION {DOMAIN obs.fetched[n] : n \in 1..Len(obs.fetched)}
             /\ \A k \in DOMAIN all_role_tags :
                  all_role_tags[k] = obs.fetched[LastWith(k)][k]
        /\ obs.delta_known =>
             /\ all_role_tags = obs.merged
             /\ DOMAIN tags_to_apply \subseteq DOMAIN obs.merged
             /\ \A k \in DOMAIN tags_to_apply : tags_to_apply[k] = obs.merged[k]

LastWriterWinsWitness ==
    /\ variant \in PolicyVariants
    /\ pc = "policy_tags"
    /\ j = 2
    /\ obs.fetched = << [k \in {"env"} |-> "dev"], [k \in {"env"} |-> "prod"] >>
    /\ all_role_tags = [k \in {"env"} |-> "prod"]

\* C8: whatever per-unit call fails, the run reaches every object the
\* top-level listing returned, finishes, and reports a processed count equal
\* to the number listed.
EveryUnitReached ==
    (pc \in {"done", "raised"} /\ raised_by # "get_all_stack_names") =>
        /\ pc = "done"
        /\ i = Len(units)
        /\ variant \in PolicyVariants => results.policies_processed = Len(units)

\* C9: a second run right after a run in which every external call
\* succeeded issues no write call.
SecondRunWritesNothing ==
    (run = 2 /\ prev_all_ok) => run_obs.n_writes = 0

\* C10: in the policy handlers 0 <= tagged <= processed <= listed; tagged
\* counts the policies with a non-empty merged set whose apply step
\* succeeded, an empty delta (no write) included; a policy without roles or
\* role labels is processed, not tagged, and gets neither a fetch of its
\* labels nor a write.
CountersConsistent ==
    variant \in PolicyVariants =>
        /\ 0 <= results.policies_tagged
        /\ results.policies_tagged <= results.policies_processed
        /\ results.policies_processed <= Len(units)
        /\ results.policies_processed = i
        /\ (pc \in {"unit", "done"}) => results.policies_tagged = run_obs.n_ok
        /\ PolicyDone =>
             results.policies_tagged = obs.tagged_before +
                 (IF ~IsEmpty(all_role_tags) /\ obs.apply_result = "true"
                  THEN 1 ELSE 0)
        /\ (PolicyDone /\ ~IsEmpty(all_role_tags) /\ obs.delta_known
               /\ IsEmpty(tags_to_apply)) =>
             /\ results.policies_tagged = obs.tagged_before + 1
             /\ obs.calls = <<>>
        /\ (PolicyDone /\ IsEmpty(all_role_tags)) =>
             /\ results.policies_tagged = obs.tagged_before
             /\ ~obs.target_fetched
             /\ obs.calls = <<>>

CountersConsistentWitness ==
    /\ variant \in PolicyVariants
    /\ pc = "done"
    /\ Len(units) = 2
    /\ results.policies_processed = 2
    /\ results.policies_tagged = 2
    /\ obs.delta_known
    /\ IsEmpty(tags_to_apply)
    /\ obs.calls = <<>>
=============================================================================
